---- MODULE Spec2Model ----
(***************************************************************************)
(* Lobster TaskProvider (lobster/core/source.py) and its Dashboard         *)
(* telemetry (lobster/cmssw/dash.py), as a state machine.                  *)
(*                                                                         *)
(* The process is started (TaskProvider.__init__), may crash, and while    *)
(* up runs obtain(), release() and terminate().  The Unit Store            *)
(* (lobster.core.unit), the allocation algorithm (lobster.core.Algo) and   *)
(* the task handlers are not part of the sources at hand; they are         *)
(* modelled after their documented contract.                               *)
(***************************************************************************)
EXTENDS Integers, Sequences, FiniteSets, TLC

VARIABLES
  up,         \* the TaskProvider process is constructed and alive
  ckpt,       \* checkpoints written to the work directory (util.checkpoint)
  merge_size, \* config: merge_size of the root workflow
  outputs,    \* config: the root workflow declares output files
  store,      \* the Unit Store (durable)
  dirs,       \* task-directory layout: task id -> running/successful/failed
  handlers,   \* self.__taskhandlers: task id -> handler (in memory)
  sent,       \* messages the last operation sent to the dashboard
  trace,      \* collaborator calls made by the last operation, in order
  op,         \* the last operation
  avail,      \* total, the cores the last obtain() was given
  obtained,   \* task list returned by the last obtain()
  rel,        \* what the last release() was given and did
  raised,     \* the last operation ended by an exception
  result,     \* what the last done() returned
  noreports,  \* the tasks whose report the last obtain() did not find on disk
  clock,      \* time.time() at the last update()
  monitor,    \* the Dashboard: __previous and __states
  queue       \* the task table of the work queue the last update() was given

vars == <<up, ckpt, merge_size, outputs, store, dirs, handlers, sent, trace, op,
          avail, obtained, rel, raised, result, noreports, clock, monitor,
          queue>>

----------------------------------------------------------------------------
(* Bounds of the model *)

NumUnits == 3
MaxTask == 4
MaxTotal == 2
MaxBatch == 2
MaxTaper == 2
MaxTime == 4
MaxFailures == 1

----------------------------------------------------------------------------
(* Configuration: config.workflows, a root workflow and one dependent *)

Labels == <<"A", "B">>

Parent(label) == IF label = "B" THEN "A" ELSE "none"

Dependents(label) == {l \in {"A", "B"} : Parent(l) = label}

MergeSizes == {0, 2}

MergeSize(label) == IF label = "A" THEN merge_size ELSE 0

\* wflow.category cores per task; merge tasks run in the category 'merge'
Cores(cat) == IF cat = "B" THEN 2 ELSE 1

CategoryOf(label, merge) == IF merge THEN "merge" ELSE label

\* wflow.outputs: whether the tasks of a workflow produce output files
HasOutputs(label) == label # "A" \/ outputs

\* wflow.cleanup_input: the dependent workflow removes the input it consumed
CleanupInput(label) == label = "B"

\* handler.unit_source: dataset units for a root workflow, parent tasks otherwise
UnitSource(label) == IF Parent(label) = "none" THEN "units" ELSE "tasks"

Retries == 1

\* dashboard status values
DONE == "Done"
RETRIEVED == "Retrieved"
ABORTED == "Aborted"
CANCELLED == "Killed"

----------------------------------------------------------------------------
(* Helpers *)

Ids(s) == 1..Len(s.tasks)

RECURSIVE SetToSeq(_)
SetToSeq(S) ==
  IF S = {} THEN <<>>
  ELSE LET m == CHOOSE x \in S : \A y \in S : x <= y
       IN <<m>> \o SetToSeq(S \ {m})

Range(q) == {q[i] : i \in DOMAIN q}

\* the k units of S with the smallest index
RECURSIVE MinK(_, _)
MinK(S, k) ==
  IF k = 0 \/ S = {} THEN {}
  ELSE LET m == CHOOSE x \in S : \A y \in S : x[2] <= y[2]
       IN {m} \cup MinK(S \ {m}, k - 1)

\* the record of a release() that did nothing
NoRel ==
  [tasks |-> <<>>, moved |-> {}, update |-> <<>>, committed |-> FALSE,
   fail_cleanup |-> {}, merge_cleanup |-> {}, input_cleanup |-> {},
   propagate |-> {}, fault |-> "none", scheduled |-> {}]

Msg(kind, id, status) == [kind |-> kind, id |-> id, status |-> status]

Call(name, arg) == [call |-> name, arg |-> arg]

----------------------------------------------------------------------------
(* Dashboard (lobster/cmssw/dash.py) *)

\* lines 104-107: the reporting interval (300 s by default) in units of the
\* clock, and a Dashboard as constructed
Interval == 1

NewMonitor == [previous |-> 0, states |-> <<>>]

\* lines 29-38: the dashboard status of a work queue state
status_map(state) ==
  CASE state = "READY" -> "Pending"
    [] state = "RUNNING" -> "Running"
    [] state = "WAITING_RETRIEVAL" -> "Waiting Retrieval"
    [] state = "DONE" -> "Done"
    [] OTHER -> "Unknown"

\* update_task_status: one JobStatus update per (id, status) of data
update_task_status(data) ==
  [i \in 1..Len(data) |-> Msg("JobStatus", data[i][1], data[i][2])]

\* register_run: one TaskMeta message
register_run == <<Msg("TaskMeta", 0, "")>>

\* generate_ids: the monitor id and the sync id made from a task id
generate_ids(id) == <<<<"monitor", id>>, <<"sync", id>>>>

\* register_tasks, a generator: yields the ids of one task per item pulled,
\* and sends the JobMeta of all tasks once it is pulled past the last id
register_tasks(ids, pulled) ==
  [yielded |-> [i \in 1..(IF pulled < Len(ids) THEN pulled ELSE Len(ids)) |->
                  generate_ids(ids[i])],
   sent |-> IF pulled > Len(ids)
            THEN [i \in 1..Len(ids) |-> Msg("JobMeta", ids[i], "")]
            ELSE <<>>]

\* an update_tasks that reports at every call
ReportAlways(m, t) == TRUE

\* line 244: more than the interval has passed since the last report
Report(m, t) == t > m.previous + Interval

\* line 260: the condition under which the loop passes over a task
Skipped(states, id, status) ==
  id \notin DOMAIN states \/ states[id] # status

\* lines 255-264: the loop over the task table
RECURSIVE Changes(_, _, _, _)
Changes(acc, q, ids, exclude) ==
  IF ids = <<>> THEN acc
  ELSE LET id == Head(ids)
           status == status_map(q[id])
       IN Changes(IF status \in exclude \/ Skipped(acc.states, id, status)
                  THEN acc
                  ELSE [data |-> Append(acc.data, <<id, status>>),
                        states |-> [k \in DOMAIN acc.states \cup {id} |->
                                      IF k = id THEN status ELSE acc.states[k]]],
                  q, Tail(ids), exclude)

\* update_tasks at time t; fails: reading the task table raises (line 251)
update_tasks(m, q, exclude, t, fails) ==
  IF ~Report(m, t)
  THEN [monitor |-> m, sent |-> <<>>, raised |-> FALSE, trace |-> <<>>]
  ELSE IF fails
  THEN [monitor |-> [m EXCEPT !.previous = t], sent |-> <<>>, raised |-> TRUE,
        trace |-> <<>>]
  ELSE LET c == Changes([data |-> <<>>, states |-> m.states], q,
                        SetToSeq(DOMAIN q), exclude)
       IN [monitor |-> [previous |-> t, states |-> c.states],
           sent |-> update_task_status(c.data), raised |-> FALSE,
           trace |-> <<Call("update_task_status", "")>>]

----------------------------------------------------------------------------
(* Unit Store *)

EmptyStore ==
  [units |-> <<>>, tasks |-> <<>>, datasets |-> {}, deps |-> {}, files |-> {}]

NewUnit == [state |-> "pending", task |-> 0, tries |-> 0]

\* register_dataset: partitions the dataset into units; no-op when registered
register_dataset(s, label) ==
  IF label \in s.datasets THEN s
  ELSE LET new == IF Parent(label) = "none"
                  THEN {<<label, i>> : i \in 1..NumUnits} ELSE {}
       IN [s EXCEPT !.datasets = @ \cup {label},
                    !.units = [u \in DOMAIN s.units \cup new |->
                                 IF u \in DOMAIN s.units THEN s.units[u]
                                 ELSE NewUnit]]

register_dependency(s, child, parent) ==
  [s EXCEPT !.deps = @ \cup {<<child, parent>>}]

\* a failed unit is retried while retries remain
FailUnit(r) ==
  [state |-> IF r.tries < Retries THEN "pending" ELSE "failed",
   task |-> 0, tries |-> IF r.tries < Retries THEN r.tries + 1 ELSE r.tries]

running_tasks(s) == SetToSeq({t \in Ids(s) : s.tasks[t].status = "running"})

\* reset_units: re-queues what a crashed process left assigned; returns the
\* ids of the tasks that were running
reset_units(s) ==
  [store |->
     [s EXCEPT
        !.units = [u \in DOMAIN s.units |->
                     IF s.units[u].state = "assigned"
                     THEN [s.units[u] EXCEPT !.state = "pending", !.task = 0]
                     ELSE s.units[u]],
        !.tasks = [t \in Ids(s) |->
                     IF s.tasks[t].status = "running"
                     THEN [s.tasks[t] EXCEPT !.status = "failed"]
                     ELSE s.tasks[t]]],
   ids |-> running_tasks(s)]


\* work_left: units not yet successful or merged
work_left(s, label) ==
  Cardinality({u \in DOMAIN s.units :
                 u[1] = label /\ s.units[u].state \notin {"successful", "merged"}})

NewTask(label, merge, units, parts) ==
  [wf |-> label, merge |-> merge, status |-> "running", units |-> units,
   parts |-> parts, commits |-> 0]

TaskInfo(id, label, merge, units, parts) ==
  [id |-> id, label |-> label, merge |-> merge, units |-> units, parts |-> parts]

Claim(s, us, id) ==
  [u \in DOMAIN s.units |->
     IF u \in us THEN [s.units[u] EXCEPT !.state = "assigned", !.task = id]
     ELSE s.units[u]]

\* the successful tasks of a workflow whose output no merge has claimed
Unmerged(s, label) ==
  {t \in Ids(s) :
     /\ s.tasks[t].wf = label /\ ~s.tasks[t].merge
     /\ s.tasks[t].status = "successful"
     /\ \A u \in s.tasks[t].units :
          s.units[u].state = "successful" /\ s.units[u].task = t}

\* pop_unmerged_tasks: up to max_batches groups of merge_size successful,
\* unmerged task outputs, each assigned to a new merge task
RECURSIVE pop_unmerged_tasks(_, _, _, _)
pop_unmerged_tasks(s, label, msize, max_batches) ==
  LET cands == Unmerged(s, label)
  IN IF msize <= 0 \/ max_batches = 0 \/ Cardinality(cands) < msize
     THEN [store |-> s, infos |-> <<>>]
     ELSE LET parts == Range(SubSeq(SetToSeq(cands), 1, msize))
              us == UNION {s.tasks[t].units : t \in parts}
              id == Len(s.tasks) + 1
              s1 == [s EXCEPT !.units = Claim(s, us, id),
                              !.tasks = Append(@, NewTask(label, TRUE, us, parts))]
              more == pop_unmerged_tasks(s1, label, msize, max_batches - 1)
          IN [store |-> more.store,
              infos |-> <<TaskInfo(id, label, TRUE, us, parts)>> \o more.infos]

\* pop_units: claims up to n batches of pending units, taper units each
RECURSIVE pop_units(_, _, _, _)
pop_units(s, label, n, taper) ==
  LET pend == {u \in DOMAIN s.units :
                 u[1] = label /\ s.units[u].state = "pending"}
  IN IF n = 0 \/ pend = {}
     THEN [store |-> s, infos |-> <<>>]
     ELSE LET us == MinK(pend, taper)
              id == Len(s.tasks) + 1
              s1 == [s EXCEPT !.units = Claim(s, us, id),
                              !.tasks = Append(@, NewTask(label, FALSE, us, {}))]
              more == pop_units(s1, label, n - 1, taper)
          IN [store |-> more.store,
              infos |-> <<TaskInfo(id, label, FALSE, us, {})>> \o more.infos]

\* update_missing: the units of the given tasks failed, their output is gone
update_missing(s, ids) ==
  LET us == UNION {s.tasks[t].units : t \in ids}
  IN [s EXCEPT
        !.units = [u \in DOMAIN s.units |->
                     IF u \in us THEN FailUnit(s.units[u]) ELSE s.units[u]],
        !.tasks = [t \in Ids(s) |->
                     IF t \in ids THEN [s.tasks[t] EXCEPT !.status = "failed"]
                     ELSE s.tasks[t]]]

\* the units a task holds
UnitsOf(s, t) == {u \in DOMAIN s.units : s.units[u].task = t}

\* update_units, one (task_update, file_update, unit_update) entry: a
\* successful task makes its units successful (merged, for a merge task, as
\* are the tasks it merged), a failed one returns them for a retry
ApplyDelta(s, d) ==
  LET t == d.id
      held == {u \in UnitsOf(s, t) : s.units[u].state = "assigned"}
      merge == s.tasks[t].merge
  IN [s EXCEPT
        !.units = [u \in DOMAIN s.units |->
                     IF u \notin held THEN s.units[u]
                     ELSE IF d.failed THEN FailUnit(s.units[u])
                     ELSE [s.units[u] EXCEPT
                             !.state = IF merge THEN "merged" ELSE "successful"]],
        !.tasks = [x \in Ids(s) |->
                     IF x = t
                     THEN [s.tasks[x] EXCEPT
                             !.status = IF d.failed THEN "failed" ELSE "successful",
                             !.commits = @ + 1]
                     ELSE IF merge /\ ~d.failed /\ x \in s.tasks[t].parts
                               /\ s.tasks[x].status = "successful"
                     THEN [s.tasks[x] EXCEPT !.status = "merged"]
                     ELSE s.tasks[x]]]

RECURSIVE ApplyDeltas(_, _)
ApplyDeltas(s, ds) ==
  IF ds = <<>> THEN s ELSE ApplyDeltas(ApplyDelta(s, ds[1]), Tail(ds))

\* update_units: commits the batch, key by key
RECURSIVE update_units(_, _, _)
update_units(s, update, i) ==
  IF i > Len(Labels) THEN s
  ELSE LET key == <<Labels[i], UnitSource(Labels[i])>>
           s1 == IF key \in DOMAIN update THEN ApplyDeltas(s, update[key]) ELSE s
       IN update_units(s1, update, i + 1)

\* the outcome of a task is committed as a success and none of its units is
\* left unresolved
ProducerOk(s, t) ==
  /\ s.tasks[t].status = "successful"
  /\ \A u \in UnitsOf(s, t) : s.units[u].state \in {"successful", "merged"}

\* register_files: the outputs of a parent become pending units of the
\* dependent workflow
register_files(s, infos, label) ==
  LET new == {<<label, t>> : t \in infos} \ DOMAIN s.units
  IN [s EXCEPT
        !.units = [u \in DOMAIN s.units \cup new |->
                     IF u \in new THEN NewUnit ELSE s.units[u]],
        !.files = @ \cup {[file |-> t, dep |-> label, ok |-> ProducerOk(s, t)] :
                            t \in infos}]

\* finished_files: the given input files that no pending or assigned unit
\* refers to any more
finished_files(s, input_files) ==
  {f \in input_files :
     f \in DOMAIN s.units => s.units[f].state \notin {"pending", "assigned"}}

----------------------------------------------------------------------------
(* Allocation algorithm: directives (label, ntasks, taper) whose summed    *)
(* cost stays within total, for workflows with work left                   *)

Directive(label, n, taper) == [label |-> label, ntasks |-> n, taper |-> taper]

RECURSIVE Cost(_)
Cost(ds) ==
  IF ds = <<>> THEN 0
  ELSE Cores(CategoryOf(ds[1].label, FALSE)) * ds[1].ntasks + Cost(Tail(ds))

AlgoRun(total, remaining) ==
  {ds \in {<<>>} \cup
      {<<Directive(l, n, t)>> : l \in Range(Labels), n \in 1..MaxTotal, t \in 1..MaxTaper}
      \cup {<<Directive("A", n, t), Directive("B", m, w)>> :
              n \in 1..MaxTotal, m \in 1..MaxTotal, t \in 1..MaxTaper, w \in 1..MaxTaper} :
     /\ Cost(ds) <= total
     /\ \A i \in DOMAIN ds : remaining[ds[i].label] > 0}

----------------------------------------------------------------------------
(* TaskProvider.__init__ *)

\* lines 180-192, the store's part: a workflow is registered on a first start
\* unless its checkpoint exists
SetupWorkflow(s, label, create, cp) ==
  IF create /\ label \notin cp THEN register_dataset(s, label) ELSE s

\* lines 194-199
SetupDependency(s, label, create) ==
  IF Parent(label) # "none" /\ create
  THEN register_dependency(s, label, Parent(label)) ELSE s

RECURSIVE SetupAll(_, _, _, _)
SetupAll(s, i, create, cp) ==
  IF i > Len(Labels) THEN s
  ELSE SetupAll(SetupWorkflow(s, Labels[i], create, cp), i + 1, create, cp)

RECURSIVE DependAll(_, _, _)
DependAll(s, i, create) ==
  IF i > Len(Labels) THEN s
  ELSE DependAll(SetupDependency(s, Labels[i], create), i + 1, create)

\* a restart that does not reset the units of the previous process
InitTelemetryNoReset(s, create) ==
  IF create
  THEN [store |-> s, sent |-> register_run,
        trace |-> <<Call("register_run", "")>>]
  ELSE [store |-> s,
        sent |-> update_task_status(
                   [i \in 1..Len(running_tasks(s)) |-> <<running_tasks(s)[i], ABORTED>>]),
        trace |-> <<Call("update_task_status", ABORTED)>>]

\* a restart that reports the reset tasks with the status of a termination
InitTelemetryKilled(s, create) ==
  IF create
  THEN [store |-> s, sent |-> register_run,
        trace |-> <<Call("register_run", "")>>]
  ELSE [store |-> reset_units(s).store,
        sent |-> update_task_status(
                   [i \in 1..Len(reset_units(s).ids) |->
                      <<reset_units(s).ids[i], CANCELLED>>]),
        trace |-> <<Call("reset_units", ""), Call("update_task_status", CANCELLED)>>]

\* lines 219-225: register the run on a first start, otherwise reset the
\* units of the previous process and report their tasks as aborted
InitTelemetry(s, create) ==
  IF create
  THEN [store |-> s, sent |-> register_run,
        trace |-> <<Call("register_run", "")>>]
  ELSE LET reset == reset_units(s)
       IN [store |-> reset.store,
           sent |-> update_task_status(
                      [i \in 1..Len(reset.ids) |-> <<reset.ids[i], ABORTED>>]),
           trace |-> <<Call("reset_units", ""), Call("update_task_status", ABORTED)>>]

\* a start that leaves the task directories where they are
MoveRunningNone(d, s, registered) == d

\* lines 190-192: the task directories under running/ of a workflow that
\* this start did not set up are moved to failed/
MoveRunning(d, s, registered) ==
  [t \in DOMAIN d |->
     IF d[t] = "running" /\ s.tasks[t].wf \notin registered
     THEN "failed" ELSE d[t]]

Start ==
  /\ ~up
  /\ LET create == "id" \notin ckpt
         registered == {l \in Range(Labels) : create /\ l \notin ckpt}
         s1 == SetupAll(store, 1, create, ckpt)
         s2 == DependAll(s1, 1, create)
         fin == InitTelemetry(s2, create)
     IN /\ ckpt' = ckpt \cup {"id"} \cup registered
        /\ dirs' = MoveRunning(dirs, store, registered)
        /\ store' = fin.store
        /\ sent' = fin.sent
        /\ trace' = fin.trace
  /\ up' = TRUE
  /\ handlers' = <<>>
  /\ op' = "start"
  /\ avail' = 0
  /\ obtained' = <<>>
  /\ rel' = NoRel
  /\ raised' = FALSE
  /\ result' = FALSE
  /\ noreports' = {}
  /\ queue' = <<>>
  /\ monitor' = NewMonitor
  /\ UNCHANGED clock
  /\ UNCHANGED <<merge_size, outputs>>

\* lines 180-189 of a first start that dies n steps into the loop over the
\* workflows from workflow i on: register_dataset is one step, the
\* checkpoint of the workflow the next
RECURSIVE InterruptedSetup(_, _, _, _)
InterruptedSetup(s, cp, i, n) ==
  IF i > Len(Labels) \/ n = 0 THEN [store |-> s, ckpt |-> cp, left |-> n]
  ELSE IF Labels[i] \in cp THEN InterruptedSetup(s, cp, i + 1, n)
  ELSE IF n = 1
  THEN [store |-> register_dataset(s, Labels[i]), ckpt |-> cp, left |-> 0]
  ELSE InterruptedSetup(register_dataset(s, Labels[i]), cp \cup {Labels[i]},
                        i + 1, n - 2)

\* lines 194-199 of a first start that dies n steps into the loop over the
\* dependencies
RECURSIVE InterruptedDepend(_, _, _)
InterruptedDepend(s, i, n) ==
  IF i > Len(Labels) \/ n = 0 THEN s
  ELSE IF Parent(Labels[i]) = "none" THEN InterruptedDepend(s, i + 1, n)
  ELSE InterruptedDepend(SetupDependency(s, Labels[i], TRUE), i + 1, n - 1)

\* the steps of a first start between the 'id' checkpoint and the end of the
\* loop over the dependencies
SetupSteps ==
  2 * Len(Labels) + Cardinality({l \in Range(Labels) : Parent(l) # "none"})

\* a first start that dies n steps after it wrote the 'id' checkpoint (line
\* 157); only the work directory and the store survive
StartInterrupted(n) ==
  /\ ~up
  /\ "id" \notin ckpt
  /\ \E r \in {InterruptedSetup(store, ckpt, 1, n)} :
       /\ ckpt' = r.ckpt \cup {"id"}
       /\ store' = InterruptedDepend(r.store, 1, r.left)
  /\ handlers' = <<>>
  /\ op' = "interrupted"
  /\ sent' = <<>>
  /\ trace' = <<>>
  /\ avail' = 0
  /\ obtained' = <<>>
  /\ rel' = NoRel
  /\ raised' = FALSE
  /\ result' = FALSE
  /\ noreports' = {}
  /\ queue' = <<>>
  /\ UNCHANGED <<up, merge_size, outputs, dirs, clock, monitor>>

\* the tasks the store has marked failed
FailedTasks(s) == {t \in Ids(s) : s.tasks[t].status = "failed"}

\* the environment makes a task fail, by its outcome or by a crash under it,
\* only while fewer than MaxFailures tasks have failed
MayFail == Cardinality(FailedTasks(store)) < MaxFailures

\* the process dies; only the work directory and the store survive
Crash ==
  /\ up
  /\ MayFail
  /\ up' = FALSE
  /\ handlers' = <<>>
  /\ op' = "crash"
  /\ sent' = <<>>
  /\ trace' = <<>>
  /\ avail' = 0
  /\ obtained' = <<>>
  /\ rel' = NoRel
  /\ raised' = FALSE
  /\ result' = FALSE
  /\ noreports' = {}
  /\ queue' = <<>>
  /\ UNCHANGED <<clock, monitor>>
  /\ UNCHANGED <<ckpt, merge_size, outputs, store, dirs>>

----------------------------------------------------------------------------
(* TaskProvider.obtain *)

\* lines 330-331: merge tasks of every workflow, in configuration order
RECURSIVE PopMerges(_, _)
PopMerges(s, i) ==
  IF i > Len(Labels) THEN [store |-> s, infos |-> <<>>, trace |-> <<>>]
  ELSE LET one == pop_unmerged_tasks(s, Labels[i], MergeSize(Labels[i]), 10)
           more == PopMerges(one.store, i + 1)
       IN [store |-> more.store, infos |-> one.infos \o more.infos,
           trace |-> <<Call("pop_unmerged_tasks", Labels[i])>> \o more.trace]

\* lines 332-335: the units of every directive of the algorithm
RECURSIVE PopDirectives(_, _)
PopDirectives(s, ds) ==
  IF ds = <<>> THEN [store |-> s, infos |-> <<>>, trace |-> <<>>]
  ELSE LET one == pop_units(s, ds[1].label, ds[1].ntasks, ds[1].taper)
           more == PopDirectives(one.store, Tail(ds))
       IN [store |-> more.store, infos |-> one.infos \o more.infos,
           trace |-> <<Call("pop_units", ds[1].label)>> \o more.trace]

\* an obtain() that claims the units of the directives before the merges
CollectUnitsFirst(s, ds) ==
  LET u == PopDirectives(s, ds)
      m == PopMerges(u.store, 1)
  IN [store |-> m.store, infos |-> u.infos \o m.infos,
      trace |-> <<Call("algo.run", "")>> \o u.trace \o m.trace]

\* lines 327-335
Collect(s, ds) ==
  LET m == PopMerges(s, 1)
      u == PopDirectives(m.store, ds)
  IN [store |-> u.store, infos |-> m.infos \o u.infos,
      trace |-> m.trace \o <<Call("algo.run", "")>> \o u.trace]

\* a merge handler that is given every constituent, its report missing or not
InFilesUnfiltered(info, noreport) == info.parts

\* lines 391-404 and 420: the constituents of a merge task whose report exists
InFiles(info, noreport) == info.parts \ noreport

\* a merge that takes the constituents with a report for the missing ones
MissingSwapped(info, noreport) == info.parts \ noreport

\* lines 391-409: the constituents of a merge task whose report is not on disk
Missing(info, noreport) == info.parts \cap noreport

Handler(info, files, ids) ==
  [id |-> info.id, dataset |-> info.label, merge |-> info.merge,
   units |-> IF info.merge THEN {} ELSE info.units,
   parts |-> info.parts, files |-> files, monitoring |-> ids]

\* lines 349-439: one handler, one task directory and one entry of the
\* result per task info
RECURSIVE BuildTasks(_, _, _, _)
BuildTasks(acc, infos, registration, noreport) ==
  IF infos = <<>> THEN acc
  ELSE LET info == infos[1]
           missing == IF info.merge THEN Missing(info, noreport) ELSE {}
           files == IF info.merge THEN InFiles(info, noreport) ELSE {}
           s1 == IF missing # {} THEN update_missing(acc.store, missing)
                 ELSE acc.store
           h == Handler(info, files, registration[info.id])
       IN BuildTasks(
            [store |-> s1,
             handlers |-> [t \in DOMAIN acc.handlers \cup {info.id} |->
                             IF t = info.id THEN h ELSE acc.handlers[t]],
             dirs |-> [t \in DOMAIN acc.dirs \cup {info.id} |->
                         IF t = info.id THEN "running" ELSE acc.dirs[t]],
             tasks |-> Append(acc.tasks,
                         [cat |-> CategoryOf(info.label, info.merge),
                          id |-> info.id, merge |-> info.merge]),
             trace |-> acc.trace \o
                         (IF missing # {} THEN <<Call("update_missing", missing)>>
                          ELSE <<>>)],
            Tail(infos), registration, noreport)

\* lines 340-347: the ids register_tasks yields, by task id.  zip() stops at
\* the end of the id list, before it asks the generator for another item
Registration(ids) ==
  [yielded |-> [t \in Range(ids) |->
                  register_tasks(ids, Len(ids)).yielded[
                    CHOOSE i \in 1..Len(ids) : ids[i] = t]],
   sent |-> register_tasks(ids, Len(ids)).sent]

InfoIds(infos) == [i \in 1..Len(infos) |-> infos[i].id]

\* lines 337-445, given the task infos c that were collected
Assemble(c, reg, noreport) ==
  BuildTasks([store |-> c.store, handlers |-> handlers, dirs |-> dirs,
              tasks |-> <<>>, trace |-> <<>>],
             c.infos, reg.yielded, noreport)

\* an obtain() that goes on to the registration when there is no task info
ObtainResultNoEarlyReturn(total, c, reg, b) ==
  /\ store' = b.store
  /\ handlers' = b.handlers
  /\ dirs' = b.dirs
  /\ avail' = total
  /\ obtained' = b.tasks
  /\ sent' = reg.sent
  /\ trace' = c.trace \o <<Call("register_tasks", "")>> \o b.trace
                       \o <<Call("free", "")>>

ObtainResult(total, c, reg, b) ==
  /\ store' = b.store
  /\ handlers' = b.handlers
  /\ dirs' = b.dirs
  /\ avail' = total
  /\ obtained' = b.tasks
  /\ sent' = IF c.infos = <<>> THEN <<>> ELSE reg.sent
  /\ trace' = IF c.infos = <<>> THEN c.trace
              ELSE c.trace \o <<Call("register_tasks", "")>> \o b.trace
                           \o <<Call("free", "")>>

Obtain(total, ds, noreport) ==
  /\ up
  /\ ds \in AlgoRun(total, [l \in Range(Labels) |-> work_left(store, l)])
  /\ \E c \in {Collect(store, ds)} :
       /\ Len(c.store.tasks) <= MaxTask
       /\ noreport \subseteq UNION {c.infos[i].parts : i \in 1..Len(c.infos)}
       /\ \E reg \in {Registration(InfoIds(c.infos))} :
            \E b \in {Assemble(c, reg, noreport)} :
              ObtainResult(total, c, reg, b)
  /\ op' = "obtain"
  /\ rel' = NoRel
  /\ raised' = FALSE
  /\ result' = FALSE
  /\ noreports' = noreport
  /\ queue' = <<>>
  /\ UNCHANGED <<clock, monitor>>
  /\ UNCHANGED <<up, ckpt, merge_size, outputs>>

----------------------------------------------------------------------------
(* TaskProvider.release *)

\* handler.outputs: the output files of a task, named by its id
Outputs(h) == IF HasOutputs(h.dataset) THEN {h.id} ELSE {}

\* the input files named in the file_update of a task
FileUpdate(h) == h.units

\* a batch that keeps only the last delta filed under a key
AddDeltaOverwrites(update, key, delta) ==
  [k \in DOMAIN update \cup {key} |-> IF k = key THEN <<delta>> ELSE update[k]]

\* line 496: update[(handler.dataset, handler.unit_source)].append(...)
AddDelta(update, key, delta) ==
  [k \in DOMAIN update \cup {key} |->
     IF k = key
     THEN (IF k \in DOMAIN update THEN update[k] ELSE <<>>) \o <<delta>>
     ELSE update[k]]

\* a release() that removes the inputs of a merge task whatever its outcome
MergeCleanupAlways(h, failed) == IF h.merge THEN h.files ELSE {}

\* lines 475-491: the input files of a merge task that succeeded
MergeCleanup(h, failed) == IF ~failed /\ h.merge THEN h.files ELSE {}

\* a loop body that leaves the handler of a released task in the map
RelTaskKeepsHandler(acc, task, elkfails) ==
  IF task.tag \notin DOMAIN acc.handlers
  THEN [acc EXCEPT !.raised = TRUE]
  ELSE
    LET h == acc.handlers[task.tag]
        wf == h.dataset
    IN [acc EXCEPT
          !.dirs[h.id] = IF task.failed THEN "failed" ELSE "successful",
          !.moved = @ \cup {h.id},
          !.update = AddDelta(@, <<wf, UnitSource(wf)>>,
                              [id |-> h.id, failed |-> task.failed]),
          !.trace = @ \o <<Call("process", wf), Call("move", wf)>>]

\* lines 462-498, one task of the batch; elkfails: elk.index_task raises
RelTask(acc, task, elkfails) ==
  IF task.tag \notin DOMAIN acc.handlers
  THEN [acc EXCEPT !.raised = TRUE]
  ELSE
    LET h == acc.handlers[task.tag]
        failed == task.failed
        wf == h.dataset
        qualifies == (MergeSize(wf) <= 0 \/ h.merge) /\ Outputs(h) # {}
    IN IF elkfails
       THEN [acc EXCEPT !.raised = TRUE,
                        !.trace = @ \o <<Call("process", wf), Call("index_task", wf)>>]
       ELSE [acc EXCEPT
               !.dirs[h.id] = IF failed THEN "failed" ELSE "successful",
               !.moved = @ \cup {h.id},
               !.fail_cleanup = IF failed THEN @ \cup Outputs(h) ELSE @,
               !.propagate = IF ~failed /\ qualifies
                             THEN @ \cup {<<dep, h.id>> : dep \in Dependents(wf)}
                             ELSE @,
               !.merge_cleanup = @ \cup MergeCleanup(h, failed),
               !.input_files = IF ~failed /\ CleanupInput(wf)
                               THEN @ \cup FileUpdate(h) ELSE @,
               !.update = AddDelta(@, <<wf, UnitSource(wf)>>,
                                   [id |-> h.id, failed |-> failed]),
               !.handlers = [t \in DOMAIN acc.handlers \ {task.tag} |->
                               acc.handlers[t]],
               !.trace = @ \o <<Call("process", wf), Call("move", wf)>>]

RECURSIVE RelLoop(_, _, _, _)
RelLoop(acc, tasks, i, fault) ==
  IF i > Len(tasks) \/ acc.raised THEN acc
  ELSE RelLoop(RelTask(acc, tasks[i], fault.kind = "elk" /\ fault.at = i),
               tasks, i + 1, fault)

\* lines 523-526
RECURSIVE Propagate(_, _, _)
Propagate(s, propagate, i) ==
  IF i > Len(Labels) THEN [store |-> s, trace |-> <<>>]
  ELSE LET infos == {pr[2] : pr \in {x \in propagate : x[1] = Labels[i]}}
           s1 == IF infos # {} THEN register_files(s, infos, Labels[i]) ELSE s
           more == Propagate(s1, propagate, i + 1)
       IN [store |-> more.store,
           trace |-> (IF infos # {} THEN <<Call("register_files", Labels[i])>>
                      ELSE <<>>) \o more.trace]

\* fs.remove of a cleanup list: an I/O error is swallowed (lines 516-519) and
\* leaves the files where they are
Removed(files, ioerror) == IF ioerror THEN {} ELSE files

\* a release() that propagates to the dependents before it commits
FinishPropagateFirst(s, loop, fault) ==
  LET commit == DOMAIN loop.update # {}
      pr == Propagate(s, loop.propagate, 1)
  IN IF commit /\ fault.kind = "store"
     THEN [store |-> pr.store, raised |-> TRUE, committed |-> FALSE,
           fail_cleanup |-> {}, merge_cleanup |-> {},
           input_cleanup |-> {}, propagate |-> loop.propagate,
           trace |-> pr.trace \o <<Call("update_units", "")>>]
     ELSE [store |-> IF commit THEN update_units(pr.store, loop.update, 1)
                     ELSE pr.store,
           raised |-> FALSE, committed |-> commit,
           fail_cleanup |-> loop.fail_cleanup, merge_cleanup |-> loop.merge_cleanup,
           input_cleanup |-> {}, propagate |-> loop.propagate,
           trace |-> pr.trace \o (IF commit THEN <<Call("update_units", "")>>
                                  ELSE <<>>)]

\* a release() that lets the I/O error of a removal escape
FinishCleanupRaises(s, loop, fault) ==
  LET commit == DOMAIN loop.update # {}
      s1 == IF commit THEN update_units(s, loop.update, 1) ELSE s
      pr == Propagate(s1, loop.propagate, 1)
  IN IF fault.kind = "remove"
     THEN [store |-> s1, raised |-> TRUE, committed |-> commit,
           fail_cleanup |-> {}, merge_cleanup |-> {},
           input_cleanup |-> {}, propagate |-> {},
           trace |-> (IF commit THEN <<Call("update_units", "")>> ELSE <<>>)
                     \o <<Call("remove", "")>>]
     ELSE [store |-> pr.store, raised |-> FALSE, committed |-> commit,
           fail_cleanup |-> loop.fail_cleanup, merge_cleanup |-> loop.merge_cleanup,
           input_cleanup |-> {}, propagate |-> loop.propagate,
           trace |-> (IF commit THEN <<Call("update_units", "")>> ELSE <<>>)
                     \o pr.trace
                     \o (IF loop.moved # {} THEN <<Call("update_transfers", "")>>
                         ELSE <<>>)]

\* a release() that goes on after update_units raised
FinishSwallowsStoreError(s, loop, fault) ==
  LET pr == Propagate(s, loop.propagate, 1)
  IN [store |-> pr.store, raised |-> FALSE, committed |-> FALSE,
      fail_cleanup |-> loop.fail_cleanup, merge_cleanup |-> loop.merge_cleanup,
      input_cleanup |-> {}, propagate |-> loop.propagate,
      trace |-> <<Call("update_units", "")>> \o pr.trace
                \o (IF loop.moved # {} THEN <<Call("update_transfers", "")>>
                    ELSE <<>>)]

\* lines 505-530: commit, cleanup, propagation, transfers.  fault: update_units
\* raises ("store"), or the removal numbered fault.at raises an I/O error
\* ("remove": 1 the failed outputs, 2 the merged and the finished inputs)
Finish(s, loop, fault) ==
  LET commit == DOMAIN loop.update # {}
  IN IF commit /\ fault.kind = "store"
     THEN [store |-> s, raised |-> TRUE, committed |-> FALSE,
           fail_cleanup |-> {}, merge_cleanup |-> {},
           input_cleanup |-> {}, propagate |-> {},
           trace |-> <<Call("update_units", "")>>]
     ELSE
       LET s1 == IF commit THEN update_units(s, loop.update, 1) ELSE s
           input_cleanup == IF loop.input_files # {}
                            THEN finished_files(s1, loop.input_files) ELSE {}
           pr == Propagate(s1, loop.propagate, 1)
           first == fault.kind = "remove" /\ fault.at = 1
           second == fault.kind = "remove" /\ fault.at = 2
       IN [store |-> pr.store, raised |-> FALSE, committed |-> commit,
           fail_cleanup |-> Removed(loop.fail_cleanup, first),
           merge_cleanup |-> Removed(loop.merge_cleanup, second),
           input_cleanup |-> Removed(input_cleanup, second),
           propagate |-> loop.propagate,
           trace |-> (IF commit THEN <<Call("update_units", "")>> ELSE <<>>)
                     \o (IF loop.input_files # {}
                         THEN <<Call("finished_files", "")>> ELSE <<>>)
                     \o (IF loop.fail_cleanup # {} THEN <<Call("remove", "failed")>>
                         ELSE <<>>)
                     \o (IF loop.merge_cleanup \cup input_cleanup # {}
                         THEN <<Call("remove", "inputs")>> ELSE <<>>)
                     \o pr.trace
                     \o (IF loop.moved # {} THEN <<Call("update_transfers", "")>>
                         ELSE <<>>)]

\* lines 457-460 and 500-503: Done for every task before the loop, Retrieved
\* for every task after it
StatusUpdates(tasks, status) ==
  update_task_status([i \in 1..Len(tasks) |-> <<tasks[i].tag, status>>])

\* what is left of a release() that raised before its commit
Aborted(s) ==
  [store |-> s, raised |-> TRUE, committed |-> FALSE,
   fail_cleanup |-> {}, merge_cleanup |-> {}, input_cleanup |-> {},
   propagate |-> {}, trace |-> <<>>]

\* the state of the loop before the first task
LoopStart(raised_) ==
  [handlers |-> handlers, dirs |-> dirs, moved |-> {}, update |-> <<>>,
   propagate |-> {}, fail_cleanup |-> {}, merge_cleanup |-> {},
   input_files |-> {}, raised |-> raised_, trace |-> <<>>]

\* what reaches the dashboard: nothing when the Done update raises (lines
\* 457-460), the Done updates when the loop or the Retrieved update raises
\* (lines 500-503)
ReleaseSent(tasks, loop, fault) ==
  IF fault.kind = "done" THEN <<>>
  ELSE IF loop.raised \/ fault.kind = "retrieved" THEN StatusUpdates(tasks, DONE)
  ELSE StatusUpdates(tasks, DONE) \o StatusUpdates(tasks, RETRIEVED)

ReleaseResult(tasks, loop, fin, fault) ==
  /\ handlers' = loop.handlers
  /\ dirs' = loop.dirs
  /\ store' = fin.store
  /\ raised' = fin.raised
  /\ sent' = ReleaseSent(tasks, loop, fault)
  /\ trace' = loop.trace \o fin.trace
  /\ rel' = [tasks |-> tasks, moved |-> loop.moved,
             update |-> loop.update, committed |-> fin.committed,
             fail_cleanup |-> fin.fail_cleanup,
             merge_cleanup |-> fin.merge_cleanup,
             input_cleanup |-> fin.input_cleanup,
             propagate |-> fin.propagate, fault |-> fault.kind,
             scheduled |-> loop.fail_cleanup]

\* the faults a release() of these tasks can meet
FaultApplies(tasks, loop, fault) ==
  /\ fault.kind = "elk" => fault.at \in 1..Len(tasks)
  /\ fault.kind = "remove" =>
       /\ ~loop.raised
       /\ fault.at = 1 => loop.fail_cleanup # {}
       /\ fault.at = 2 => loop.merge_cleanup \cup loop.input_files # {}
       /\ fault.at \in {1, 2}
  /\ fault.kind \notin {"elk", "remove"} => fault.at = 0

Release(tasks, fault) ==
  /\ up
  /\ \E loop \in {IF fault.kind = "done" THEN LoopStart(TRUE)
                   ELSE RelLoop(LoopStart(FALSE), tasks, 1, fault)} :
       /\ FaultApplies(tasks, loop, fault)
       /\ \E fin \in {IF loop.raised \/ fault.kind = "retrieved" THEN Aborted(store)
                       ELSE Finish(store, loop, fault)} :
            ReleaseResult(tasks, loop, fin, fault)
  /\ op' = "release"
  /\ result' = FALSE
  /\ noreports' = {}
  /\ queue' = <<>>
  /\ UNCHANGED <<clock, monitor>>
  /\ avail' = 0
  /\ obtained' = <<>>
  /\ UNCHANGED <<up, ckpt, merge_size, outputs>>

----------------------------------------------------------------------------
(* TaskProvider.terminate *)

\* a terminate() that reports every assigned unit, by the task that holds it
TerminateUpdatesPerUnit(s) ==
  LET held == {x \in DOMAIN s.units : s.units[x].state = "assigned"}
      key(u) == (IF u[1] = "A" THEN 0 ELSE MaxTask + NumUnits) + u[2]
      keys == SetToSeq({key(u) : u \in held})
      unit(i) == CHOOSE u \in held : key(u) = keys[i]
  IN update_task_status([i \in 1..Len(keys) |-> <<s.units[unit(i)].task, CANCELLED>>])

\* lines 540-542: one Killed update per id that running_tasks() yields
TerminateUpdates(s) ==
  LET ids == running_tasks(s)
  IN update_task_status([i \in 1..Len(ids) |-> <<ids[i], CANCELLED>>])

\* a terminate() that gives the running work back to the store
TerminateStoreResets(s) == reset_units(s).store

\* terminate() calls nothing that changes the store
TerminateStore(s) == s

Terminate ==
  /\ up
  /\ sent' = TerminateUpdates(store)
  /\ store' = TerminateStore(store)
  /\ trace' = <<Call("running_tasks", ""), Call("update_task_status", CANCELLED)>>
  /\ op' = "terminate"
  /\ avail' = 0
  /\ obtained' = <<>>
  /\ rel' = NoRel
  /\ raised' = FALSE
  /\ result' = FALSE
  /\ noreports' = {}
  /\ queue' = <<>>
  /\ UNCHANGED <<clock, monitor>>
  /\ UNCHANGED <<up, ckpt, merge_size, outputs, dirs, handlers>>

----------------------------------------------------------------------------
(* TaskProvider.done *)

\* unfinished_units: the units that are still to be processed
unfinished_units(s) ==
  Cardinality({u \in DOMAIN s.units : s.units[u].state \in {"pending", "assigned"}})

\* merged: no workflow that merges its output has output left to merge
merged(s) ==
  \A l \in Range(Labels) :
    MergeSize(l) > 0 =>
      \A u \in DOMAIN s.units : u[1] = l => s.units[u].state # "successful"

\* a done() that is content with either of its two conditions
doneEither(s) ==
  LET left == unfinished_units(s)
  IN IF merged(s) THEN TRUE ELSE left = 0

\* lines 545-546: left = unfinished_units(); return merged() and left == 0
done(s) ==
  LET left == unfinished_units(s)
  IN IF merged(s) THEN left = 0 ELSE FALSE

Done ==
  /\ up
  /\ result' = done(store)
  /\ noreports' = {}
  /\ queue' = <<>>
  /\ UNCHANGED <<clock, monitor>>
  /\ trace' = <<Call("unfinished_units", ""), Call("merged", "")>>
  /\ op' = "done"
  /\ sent' = <<>>
  /\ avail' = 0
  /\ obtained' = <<>>
  /\ rel' = NoRel
  /\ raised' = FALSE
  /\ UNCHANGED <<up, ckpt, merge_size, outputs, store, dirs, handlers>>

----------------------------------------------------------------------------
(* TaskProvider.update *)

\* line 555: exclude_states
exclude_states == {DONE, "Waiting Retrieval"}

\* lines 556-560: the exception of update_tasks is caught and logged
UpdateRaised(r) == FALSE

Update(q, t, fails) ==
  /\ up
  /\ \E r \in {update_tasks(monitor, q, exclude_states, t, fails)} :
       /\ monitor' = r.monitor
       /\ sent' = r.sent
       /\ raised' = UpdateRaised(r)
       /\ trace' = <<Call("update_tasks", "")>> \o r.trace
                   \o (IF r.raised THEN <<Call("logger.exception", "")>>
                       ELSE <<>>)
  /\ clock' = t
  /\ queue' = q
  /\ op' = "update"
  /\ avail' = 0
  /\ obtained' = <<>>
  /\ rel' = NoRel
  /\ result' = FALSE
  /\ noreports' = {}
  /\ UNCHANGED <<up, ckpt, merge_size, outputs, store, dirs, handlers>>

----------------------------------------------------------------------------

\* the states a task of the work queue can be in
QueueStates == {"READY", "RUNNING", "WAITING_RETRIEVAL", "DONE"}

\* the tasks that are out, each completed with or without success
Live == {c \in [tag : DOMAIN handlers, failed : BOOLEAN] : c.failed => MayFail}

\* the tasks that are out, completed with success
Completed == {c \in Live : ~c.failed}

\* what a work queue hands over task by task
Singles == {<<>>} \cup {<<c>> : c \in Live}

\* a task of the release() before, handed over once more
Repeated == {<<[tag |-> rel.tasks[i].tag, failed |-> FALSE]>> : i \in DOMAIN rel.tasks}

\* what release() may be given: nothing, one task, one task again, or a
\* batch of completed tasks that are out, where an id may come twice
Batches ==
  Singles \cup Repeated \cup UNION {[1..n -> Completed] : n \in 2..MaxBatch}

\* batches of distinct tasks that are out
LiveBatches ==
  Singles \cup UNION {{b \in [1..n -> Live] :
                          \A i, j \in 1..n : i # j => b[i].tag # b[j].tag} :
                       n \in 2..MaxBatch}

NoFault == [kind |-> "none", at |-> 0]

Faults ==
  {NoFault, [kind |-> "store", at |-> 0]}
  \cup {[kind |-> "elk", at |-> i] : i \in 1..MaxBatch}

\* the indexing raises at a task of the batch
IndexingFaults == {NoFault} \cup {[kind |-> "elk", at |-> i] : i \in 1..MaxBatch}

\* a status update of the dashboard raises
DashboardFaults == {[kind |-> "done", at |-> 0], [kind |-> "retrieved", at |-> 0]}

\* update_units raises
StoreFaults == {NoFault, [kind |-> "store", at |-> 0]}

\* a removal of files raises an I/O error
CleanupFaults == {NoFault} \cup {[kind |-> "remove", at |-> i] : i \in {1, 2}}

----------------------------------------------------------------------------

Init ==
  /\ up = FALSE
  /\ ckpt = {}
  /\ merge_size \in MergeSizes
  \* a workflow that merges its output has output
  /\ outputs \in {o \in BOOLEAN : merge_size > 0 => o}
  /\ store = EmptyStore
  /\ dirs = <<>>
  /\ handlers = <<>>
  /\ sent = <<>>
  /\ trace = <<>>
  /\ op = "none"
  /\ avail = 0
  /\ obtained = <<>>
  /\ rel = NoRel
  /\ raised = FALSE
  /\ result = FALSE
  /\ noreports = {}
  /\ clock = 0
  /\ monitor = NewMonitor
  /\ queue = <<>>

ObtainAny ==
  \E total \in 0..MaxTotal :
    \E ds \in AlgoRun(total, [l \in Range(Labels) |-> work_left(store, l)]) :
      \E noreport \in SUBSET UNION {Unmerged(store, l) :
                                       l \in {x \in Range(Labels) : MergeSize(x) > 0}} :
        Obtain(total, ds, noreport)

ReleaseAny == \E tasks \in Batches : Release(tasks, NoFault)

ReleaseSingle == \E tasks \in Singles : Release(tasks, NoFault)

ReleaseFaulty == \E tasks \in LiveBatches, fault \in Faults : Release(tasks, fault)

\* an exception that left release() has ended the cycle: the control loop
\* makes no further call
Stopped == op = "release" /\ raised

ReleaseTelemetryFaulty ==
  \/ \E tasks \in LiveBatches, fault \in IndexingFaults : Release(tasks, fault)
  \/ \E tasks \in Singles \ {<<>>}, fault \in DashboardFaults : Release(tasks, fault)

ReleaseStoreFaulty ==
  \E tasks \in LiveBatches, fault \in StoreFaults : Release(tasks, fault)

ReleaseCleanupFaulty ==
  \E tasks \in LiveBatches, fault \in CleanupFaults : Release(tasks, fault)

\* one process: started once, then obtain() and release()
Next ==
  \/ Start
  \/ ObtainAny
  \/ ReleaseAny

Spec == Init /\ [][Next]_vars

\* a process that may crash at any time and is then started again
NextRestart ==
  \/ Start
  \/ Crash
  \/ ObtainAny
  \/ ReleaseSingle

SpecRestart == Init /\ [][NextRestart]_vars

\* one process whose collaborators may raise during release()
NextFaults ==
  \/ Start
  \/ ObtainAny
  \/ ReleaseFaulty

SpecFaults == Init /\ [][NextFaults]_vars

\* one process that is told to terminate, any number of times
NextShutdown ==
  \/ Start
  \/ ObtainAny
  \/ ReleaseSingle
  \/ Terminate

SpecShutdown == Init /\ [][NextShutdown]_vars

\* one process whose dashboard and indexing may raise during release()
NextTelemetry ==
  \/ Start
  \/ ~Stopped /\ ObtainAny
  \/ ~Stopped /\ ReleaseTelemetryFaulty

SpecTelemetry == Init /\ [][NextTelemetry]_vars

\* one process whose store may raise in update_units
NextStore ==
  \/ Start
  \/ ~Stopped /\ ObtainAny
  \/ ~Stopped /\ ReleaseStoreFaulty

SpecStore == Init /\ [][NextStore]_vars

\* one process whose file removals may fail
NextCleanup ==
  \/ Start
  \/ ObtainAny
  \/ ReleaseCleanupFaulty

SpecCleanup == Init /\ [][NextCleanup]_vars

\* one process that asks after every step whether the project is done
NextDone ==
  \/ Start
  \/ ObtainAny
  \/ ReleaseSingle
  \/ Done

SpecDone == Init /\ [][NextDone]_vars

\* the control loop calls update() with the task table of the work queue as
\* time goes by; reading the table may fail
UpdateAny ==
  \E t \in clock..MaxTime :
    \E q \in [DOMAIN handlers -> QueueStates] :
      \E fails \in BOOLEAN : Update(q, t, fails)

NextUpdate ==
  \/ Start
  \/ ObtainAny
  \/ UpdateAny

SpecUpdate == Init /\ [][NextUpdate]_vars

\* the first start may die at any step after the 'id' checkpoint
StartInterruptedAny == \E n \in 0..SetupSteps : StartInterrupted(n)

NextInit ==
  \/ StartInterruptedAny
  \/ Start
  \/ ObtainAny

SpecInit == Init /\ [][NextInit]_vars

----------------------------------------------------------------------------
(* Properties *)

\* the units a live handler holds: its lumis, or for a merge handler the
\* units of its input files
HandlerUnits(h) ==
  IF h.merge THEN UNION {store.tasks[p].units : p \in h.files} ELSE h.units

Assigned == {u \in DOMAIN store.units : store.units[u].state = "assigned"}

CallsOf(name) == {i \in DOMAIN trace : trace[i].call = name}

\* C1: no double assignment.  Every unit held by a task that is out is
\* assigned in the store to that very task, no unit is held by two tasks that
\* are out, and every assigned unit belongs to exactly one task, which the
\* store records as running.
NoDoubleAssignment ==
  /\ \A t \in DOMAIN handlers : \A u \in HandlerUnits(handlers[t]) :
       store.units[u].state = "assigned" /\ store.units[u].task = t
  /\ \A t1, t2 \in DOMAIN handlers :
       t1 # t2 => HandlerUnits(handlers[t1]) \cap HandlerUnits(handlers[t2]) = {}
  /\ \A u \in Assigned :
       Cardinality({t \in Ids(store) : store.tasks[t].status = "running"
                                        /\ store.units[u].task = t}) = 1

\* two tasks are out and one of them holds a unit that is assigned for the
\* second time
ReassignedWhileOthersOut ==
  /\ Cardinality(DOMAIN handlers) >= 2
  /\ \E u \in Assigned : store.units[u].tries >= 1

\* C2: a file is registered for a dependent workflow only once update_units
\* has committed the deltas of the task that produced it: at registration the
\* producing task is recorded successful and its units are successful (merged,
\* when the producer is a merge task), and within release() every
\* register_files call follows the update_units call.
PropagationAfterCommit ==
  /\ \A f \in store.files : f.ok
  /\ op = "release" /\ CallsOf("register_files") # {} =>
       /\ CallsOf("update_units") # {}
       /\ \A i \in CallsOf("register_files"), j \in CallsOf("update_units") : j < i

\* a release() has just propagated the output of a merge task
PropagatedMergeOutput ==
  /\ op = "release"
  /\ \E pr \in rel.propagate :
       store.tasks[pr[2]].merge /\ <<pr[1], pr[2]>> \in DOMAIN store.units

\* C3: a task id released twice never has a second delta committed: no task
\* has more than one delta committed by update_units, and a release() that is
\* given the same id twice raises and commits nothing.
NoSecondDelta ==
  /\ \A t \in Ids(store) : store.tasks[t].commits <= 1
  /\ op = "release"
       /\ (\E i, j \in DOMAIN rel.tasks : i < j /\ rel.tasks[i].tag = rel.tasks[j].tag)
     => raised /\ ~rel.committed

\* a release() was given again an id whose delta is committed, and raised
RejectedSecondRelease ==
  /\ op = "release" /\ raised
  /\ \E i \in DOMAIN rel.tasks : store.tasks[rel.tasks[i].tag].commits = 1

Running(s) == {t \in Ids(s) : s.tasks[t].status = "running"}

SentIds == {sent[i].id : i \in DOMAIN sent}

\* C4: the store and the task-directory layout agree.  After a release(),
\* however it ended, every task whose directory it moved to successful/ has a
\* success committed in the store, and every task whose directory it moved to
\* failed/ has a failure committed.
LayoutMatchesStore ==
  op = "release" =>
    \A t \in rel.moved :
      /\ store.tasks[t].commits = 1
      /\ dirs[t] = "successful" => store.tasks[t].status = "successful"
      /\ dirs[t] = "failed" => store.tasks[t].status = "failed"

\* C5: restart recovery.  Every unit that is assigned when the process is
\* started is pending once the start is over, and no unit is assigned then.
RestartRequeuesAssigned ==
  [][(~up /\ up') =>
       /\ \A u \in Assigned : store'.units[u].state = "pending"
       /\ \A u \in DOMAIN store'.units : store'.units[u].state # "assigned"]_vars

\* a start has re-queued the unit of a task that never was released
RequeuedAfterCrash ==
  /\ op = "start"
  /\ \E t \in Ids(store) :
       /\ store.tasks[t].status = "failed" /\ store.tasks[t].commits = 0
       /\ \E u \in store.tasks[t].units : store.units[u].state = "pending"

\* C6: on a restart the dashboard receives one Aborted update for each id
\* that reset_units returns, the tasks that were running, and nothing else;
\* on a first start nothing is reset, no Aborted update is sent and the run is
\* registered.
RestartReportsAborted ==
  [][(~up /\ up') =>
       IF "id" \in ckpt
       THEN /\ Len(sent') = Cardinality(Running(store))
            /\ {sent'[i].id : i \in DOMAIN sent'} = Running(store)
            /\ \A i \in DOMAIN sent' :
                 sent'[i].kind = "JobStatus" /\ sent'[i].status = ABORTED
            /\ \E i \in DOMAIN trace' : trace'[i].call = "reset_units"
       ELSE /\ sent' = register_run
            /\ \A i \in DOMAIN trace' : trace'[i].call # "reset_units"
            /\ Running(store') = Running(store)]_vars

\* a restart has reported two tasks as aborted
TwoTasksAborted ==
  /\ op = "start" /\ Len(sent) = 2
  /\ \A i \in DOMAIN sent : sent[i].status = ABORTED

\* C7 as it is stated: terminate() sends as many Cancelled updates as there
\* are units assigned to running tasks.
TerminateCancelsPerUnit ==
  op = "terminate" =>
    Len(sent) = Cardinality({u \in Assigned : store.units[u].task \in Running(store)})

\* C7, amended: terminate() sends exactly one Cancelled update for each
\* running task, whatever the number of units the task holds, and deletes no
\* unit.
TerminateCancelsPerTask ==
  [][op' = "terminate" =>
       /\ Len(sent') = Cardinality(Running(store))
       /\ {sent'[i].id : i \in DOMAIN sent'} = Running(store)
       /\ \A i \in DOMAIN sent' :
            sent'[i].kind = "JobStatus" /\ sent'[i].status = CANCELLED
       /\ DOMAIN store'.units = DOMAIN store.units]_vars

\* terminate() found one running task that holds two units
TerminatedTaskOfTwoUnits ==
  /\ op = "terminate" /\ Len(sent) = 1
  /\ Cardinality({u \in Assigned : store.units[u].task = sent[1].id}) = 2

RECURSIVE TaskCost(_)
TaskCost(tasks) ==
  IF tasks = <<>> THEN 0 ELSE Cores(tasks[1].cat) + TaskCost(Tail(tasks))

\* C9: the cores of all tasks an obtain() returns, merge tasks included, do
\* not exceed the total it was given.
ObtainWithinTotal ==
  op = "obtain" => TaskCost(obtained) <= avail

\* C10: merge tasks first.  An obtain() calls pop_unmerged_tasks once for
\* every workflow before it runs the algorithm and before any pop_units call,
\* and in its result every merge task precedes every task of new units.
MergeFirst ==
  op = "obtain" =>
    /\ Cardinality(CallsOf("pop_unmerged_tasks")) = Len(Labels)
    /\ Cardinality(CallsOf("algo.run")) = 1
    /\ \A i \in CallsOf("pop_unmerged_tasks") :
         \A j \in CallsOf("algo.run") \cup CallsOf("pop_units") : i < j
    /\ \A i, j \in DOMAIN obtained :
         obtained[i].merge /\ ~obtained[j].merge => i < j

\* an obtain() has returned a merge task and a task of new units
MergeAheadOfUnits ==
  /\ op = "obtain"
  /\ \E i, j \in DOMAIN obtained : obtained[i].merge /\ ~obtained[j].merge

\* C11: an obtain() for which neither pop_unmerged_tasks nor pop_units yields
\* a task info returns the empty list and does not raise; it registers no task
\* with the dashboard, writes no task directory, leaves the handler map as it
\* was and changes nothing in the store.
EmptyObtainChangesNothing ==
  [][(op' = "obtain" /\ Len(store'.tasks) = Len(store.tasks)) =>
       /\ obtained' = <<>> /\ ~raised'
       /\ sent' = <<>>
       /\ \A i \in DOMAIN trace' : trace'[i].call \notin {"register_tasks", "free"}
       /\ handlers' = handlers
       /\ dirs' = dirs
       /\ store' = store]_vars

\* an obtain() asked the store for units while tasks were out, and got none
ObtainedNothingWhileOut ==
  /\ op = "obtain" /\ obtained = <<>>
  /\ CallsOf("pop_units") # {}
  /\ DOMAIN handlers # {}

\* C12: done() returns true exactly when no unit is left unfinished (pending
\* or assigned) and every workflow that merges its output has no successful
\* unit left unmerged.
DoneIffMergedAndFinished ==
  op = "done" =>
    (result <=>
       /\ \A u \in DOMAIN store.units : store.units[u].state \notin {"pending", "assigned"}
       /\ \A u \in DOMAIN store.units :
            MergeSize(u[1]) > 0 => store.units[u].state # "successful")

\* done() returned true for a project whose output was merged
DoneAfterMerge ==
  /\ op = "done" /\ result
  /\ \E u \in DOMAIN store.units : store.units[u].state = "merged"

\* the output of task t is registered as input of the workflow dep
Propagated(t, dep) == \E f \in store.files : f.file = t /\ f.dep = dep

\* the condition of line 484, for a task the store knows
Qualifies(t) ==
  /\ MergeSize(store.tasks[t].wf) <= 0 \/ store.tasks[t].merge
  /\ HasOutputs(store.tasks[t].wf)

\* C13: release() propagates the output of a task to every dependent of its
\* workflow exactly when the task succeeded, has an output, and its workflow
\* needs no merge or the task is a merge task: for every task a release() has
\* processed and every dependent workflow, the output is registered if and
\* only if the task succeeded and qualifies; and no output of any other task
\* is ever registered.
PropagatedIffQualified ==
  /\ \A f \in store.files :
       dirs[f.file] = "successful" /\ Qualifies(f.file)
       /\ f.dep \in Dependents(store.tasks[f.file].wf)
  /\ op = "release" =>
       \A t \in rel.moved : \A dep \in Dependents(store.tasks[t].wf) :
         Propagated(t, dep) <=> (dirs[t] = "successful" /\ Qualifies(t))

\* C14: a failure of the dashboard or of the indexing does not affect
\* scheduling.  When update_task_status or index_task raises during a
\* release(), the release() does not raise and the delta of every task it was
\* given is committed to the store.
TelemetryFailureHarmless ==
  (op = "release" /\ rel.fault \in {"elk", "done", "retrieved"}) =>
    /\ ~raised
    /\ \A i \in DOMAIN rel.tasks : store.tasks[rel.tasks[i].tag].commits = 1

\* C15: a failure of the commit is fatal to the cycle.  When update_units
\* raises, release() raises, the store is left as it was, and no later step is
\* taken: no finished_files, no removal of files, no register_files and no
\* update_transfers.
CommitFailureIsFatal ==
  [][(op' = "release" /\ rel'.fault = "store"
        /\ \E i \in DOMAIN trace' : trace'[i].call = "update_units") =>
       /\ raised' /\ ~rel'.committed
       /\ store' = store
       /\ \A i \in DOMAIN trace' :
            trace'[i].call \notin {"finished_files", "remove", "register_files",
                                   "update_transfers"}
       /\ trace'[Len(trace')].call = "update_units"]_vars

\* update_units raised in a release() that had an output to propagate
CommitFailedBeforePropagation ==
  /\ op = "release" /\ raised /\ rel.fault = "store"
  /\ \E t \in rel.moved :
       dirs[t] = "successful" /\ Qualifies(t) /\ Dependents(store.tasks[t].wf) # {}

\* C16: cleanup is best-effort.  When a removal of files fails with an I/O
\* error, release() does not raise; the deltas stay committed, every output
\* that qualifies is registered for the dependents after the failed removal,
\* and update_transfers is called.
CleanupFailureIsSwallowed ==
  (op = "release" /\ rel.fault = "remove") =>
    /\ ~raised /\ rel.committed
    /\ \A t \in rel.moved : \A dep \in Dependents(store.tasks[t].wf) :
         (dirs[t] = "successful" /\ Qualifies(t)) =>
           /\ Propagated(t, dep)
           /\ \E i \in CallsOf("remove"), j \in CallsOf("register_files") : i < j
    /\ CallsOf("update_transfers") # {}
    /\ trace[Len(trace)].call = "update_transfers"

\* a removal failed in a release() that had an output to propagate
RemovalFailedBeforePropagation ==
  /\ op = "release" /\ rel.fault = "remove"
  /\ CallsOf("remove") # {}
  /\ CallsOf("register_files") # {}

\* the merge tasks the last obtain() built
NewMerges == {obtained[i].id : i \in {j \in DOMAIN obtained : obtained[j].merge}}

\* C17: for every merge task an obtain() builds, update_missing is given
\* exactly the constituents whose report is absent (and is not called when
\* none is), the handler is given exactly the constituents whose report is
\* present, and no status update is sent to the dashboard for a missing
\* constituent.
MissingGoToUpdateMissing ==
  op = "obtain" =>
    /\ \A t \in NewMerges :
         /\ handlers[t].files = handlers[t].parts \ noreports
         /\ Cardinality({i \in CallsOf("update_missing") :
                           trace[i].arg = handlers[t].parts \cap noreports})
              = IF handlers[t].parts \cap noreports = {} THEN 0 ELSE 1
    /\ \A i \in CallsOf("update_missing") :
         \E t \in NewMerges : trace[i].arg = handlers[t].parts \cap noreports
    /\ \A i \in DOMAIN sent : sent[i].id \notin noreports
    /\ CallsOf("update_task_status") = {}

\* an obtain() built a merge task of which one constituent had lost its
\* report and another had not
MergeWithOneMissing ==
  /\ op = "obtain"
  /\ \E t \in NewMerges :
       handlers[t].files # {} /\ handlers[t].parts \cap noreports # {}

\* C18: a merge task goes ahead only with at least two constituents whose
\* report exists: every merge task an obtain() returns, and every merge
\* handler it registers, has at least two input files.
MergeNeedsTwoInputs ==
  op = "obtain" =>
    /\ \A t \in NewMerges : Cardinality(handlers[t].files) >= 2
    /\ \A t \in DOMAIN handlers :
         handlers[t].merge => Cardinality(handlers[t].files) >= 2

\* C19: every task passed to release() has its working directory moved
\* exactly once: to failed/, with its output files scheduled for removal, if
\* it failed, and to successful/, with nothing scheduled, otherwise.
MovedOncePerTask ==
  op = "release" =>
    /\ Cardinality(CallsOf("move"))
         = Cardinality({rel.tasks[i].tag : i \in DOMAIN rel.tasks})
    /\ \A i \in DOMAIN rel.tasks :
         LET t == rel.tasks[i]
         IN /\ t.tag \in rel.moved
            /\ dirs[t.tag] = IF t.failed THEN "failed" ELSE "successful"
            /\ t.tag \in rel.scheduled
                 <=> t.failed /\ HasOutputs(store.tasks[t.tag].wf)

\* the entries of the batch of the last release() that belong to task t
DeltasOf(t) ==
  {e \in {<<k, j>> : k \in DOMAIN rel.update, j \in 1..MaxBatch} :
     /\ e[2] \in DOMAIN rel.update[e[1]]
     /\ rel.update[e[1]][e[2]].id = t}

\* C20: a release() calls update_units at most once, and not at all for an
\* empty task list; the batch it hands to update_units holds exactly one
\* entry per released task, with that task's outcome, under the key
\* (workflow, unit source) of the task, and no other entry.
BatchHoldsEachDeltaOnce ==
  op = "release" =>
    /\ Cardinality(CallsOf("update_units")) <= 1
    /\ rel.tasks = <<>> => CallsOf("update_units") = {}
    /\ CallsOf("update_units") # {} =>
         /\ \A i \in DOMAIN rel.tasks :
              LET t == rel.tasks[i]
                  wf == store.tasks[t.tag].wf
              IN /\ Cardinality(DeltasOf(t.tag)) = 1
                 /\ \A e \in DeltasOf(t.tag) :
                      /\ e[1] = <<wf, UnitSource(wf)>>
                      /\ rel.update[e[1]][e[2]].failed = t.failed
         /\ \A k \in DOMAIN rel.update : \A j \in DOMAIN rel.update[k] :
              \E i \in DOMAIN rel.tasks : rel.tasks[i].tag = rel.update[k][j].id

\* a release() committed the deltas of two tasks of one workflow in one batch
TwoDeltasUnderOneKey ==
  /\ op = "release"
  /\ rel.committed
  /\ \E k \in DOMAIN rel.update : Len(rel.update[k]) = 2

\* the ids of the tasks in a list handed to or returned by the provider
TagsOf(tasks) == {tasks[i].tag : i \in DOMAIN tasks}

\* the ids of the tasks in a list returned by obtain()
IdsOf(tasks) == {tasks[i].id : i \in DOMAIN tasks}

\* C21: the handler map holds exactly the tasks that obtain() returned and
\* release() has not been given yet: obtain() adds the entries of the tasks
\* it returns, all of them new, release() removes the entry of every task it
\* is given, and no other operation of a running provider changes the map.
HandlersAreTasksOut ==
  [][/\ op' = "obtain" =>
          /\ DOMAIN handlers' = DOMAIN handlers \cup IdsOf(obtained')
          /\ IdsOf(obtained') \cap DOMAIN handlers = {}
     /\ op' = "release" =>
          DOMAIN handlers' = DOMAIN handlers \ TagsOf(rel'.tasks)
     /\ op' \in {"terminate", "done", "update"} => handlers' = handlers]_vars

\* C22: when obtain() returns tasks, a JobMeta registration of every returned
\* task has been sent to the dashboard, and the parameters of each task carry
\* the monitor id and the sync id generated from the id of that task.
JobMetaSentForReturned ==
  (op = "obtain" /\ obtained # <<>>) =>
    \A t \in IdsOf(obtained) :
      /\ \E i \in DOMAIN sent : sent[i].kind = "JobMeta" /\ sent[i].id = t
      /\ handlers[t].monitoring = generate_ids(t)

\* C23: an update_tasks that reports (the interval has passed, the task
\* table could be read) sends a status update for every task of the queue
\* whose status is not excluded and is not the one recorded for it, a task
\* with no recorded status included, and records that status; it sends
\* nothing for the other tasks.
UpdateReportsChanges ==
  [][(/\ op' = "update"
      /\ clock' > monitor.previous + Interval
      /\ \A i \in DOMAIN trace' : trace'[i].call # "logger.exception") =>
       \A id \in DOMAIN queue' :
         LET status == status_map(queue'[id])
             changed == /\ status \notin exclude_states
                        /\ id \in DOMAIN monitor.states => monitor.states[id] # status
         IN IF changed
            THEN /\ \E i \in DOMAIN sent' : sent'[i] = Msg("JobStatus", id, status)
                 /\ id \in DOMAIN monitor'.states
                 /\ monitor'.states[id] = status
            ELSE \A i \in DOMAIN sent' : sent'[i].id # id]_vars

\* C24: update() is rate-limited and never fails.  A call made no more than
\* the interval after the last reporting call reports nothing and leaves the
\* Dashboard as it was, a later call is a reporting call, and no exception of
\* update_tasks leaves update().
UpdateRateLimitedAndCaught ==
  [][op' = "update" =>
       /\ raised' = FALSE
       /\ clock' <= monitor.previous + Interval =>
            /\ sent' = <<>>
            /\ \A i \in DOMAIN trace' : trace'[i].call # "update_task_status"
            /\ monitor' = monitor
       /\ clock' > monitor.previous + Interval => monitor'.previous = clock']_vars

\* an update() that came after a reporting call, within the interval, and
\* reported nothing
UpdateWithinInterval ==
  /\ op = "update"
  /\ monitor.previous > 0
  /\ clock > monitor.previous
  /\ clock <= monitor.previous + Interval
  /\ CallsOf("update_task_status") = {}

\* C25: whenever an initialization has completed, also after a first start
\* that was interrupted after the 'id' checkpoint, every configured
\* workflow is registered in the store, the root workflow with its units,
\* and every dependency of a workflow on its parent is recorded.
InitCompletesRegistration ==
  up =>
    /\ \A l \in Range(Labels) : l \in store.datasets
    /\ \A l \in Range(Labels) :
         Parent(l) = "none" => \A i \in 1..NumUnits : <<l, i>> \in DOMAIN store.units
    /\ \A l \in Range(Labels) :
         Parent(l) # "none" => <<l, Parent(l)>> \in store.deps

\* C26: a restart leaves no task directory under running/: every directory
\* it finds there is moved to failed/, the store marks that task failed and
\* none of the units the task held stays assigned, and the other directories
\* stay where they are.
RestartEmptiesRunning ==
  [][(op' = "start" /\ "id" \in ckpt) =>
       /\ \A t \in DOMAIN dirs' : dirs'[t] # "running"
       /\ \A t \in DOMAIN dirs :
            IF dirs[t] = "running"
            THEN /\ dirs'[t] = "failed"
                 /\ store'.tasks[t].status = "failed"
                 /\ \A u \in DOMAIN store.units :
                      store.units[u].task = t => store'.units[u].state # "assigned"
            ELSE dirs'[t] = dirs[t]]_vars

\* a restart moved the directory of a task it reports as aborted to failed/
RestartMovedRunningTask ==
  /\ op = "start"
  /\ \E i \in DOMAIN sent :
       /\ sent[i].status = ABORTED
       /\ dirs[sent[i].id] = "failed"
       /\ store.tasks[sent[i].id].status = "failed"

\* the tasks given to the release() of this step that succeeded
Succeeded ==
  {t \in DOMAIN handlers :
     \E i \in DOMAIN rel'.tasks : rel'.tasks[i].tag = t /\ ~rel'.tasks[i].failed}

\* C27: release() removes no input of an unsuccessful task.  The merge
\* inputs it removes are input files of merge tasks of the batch that
\* succeeded; the workflow inputs it removes are inputs of tasks of the batch
\* that succeeded in a workflow with cleanup_input, they are removed only
\* after the commit, and only if the store reports them finished.
CleanupOnlyOfSuccessful ==
  [][op' = "release" =>
       /\ rel'.merge_cleanup \subseteq
            UNION {handlers[t].files : t \in {x \in Succeeded : handlers[x].merge}}
       /\ rel'.input_cleanup \subseteq
            finished_files(store',
              UNION {FileUpdate(handlers[t]) :
                       t \in {x \in Succeeded : CleanupInput(handlers[x].dataset)}})
       /\ rel'.input_cleanup # {} => rel'.committed]_vars

\* a release() of a merge task that failed ran to its end and removed no
\* merge input
FailedMergeKeepsInputs ==
  /\ op = "release"
  /\ ~raised
  /\ rel.merge_cleanup = {}
  /\ \E i \in DOMAIN rel.tasks :
       rel.tasks[i].failed /\ store.tasks[rel.tasks[i].tag].merge

====
